---- MODULE Spec2Model ----
(***************************************************************************)
(* Model of nni/nas/pytorch/utils.py: the process-wide counter             *)
(* global_mutable_counting, the recursive to_device dispatch, the          *)
(* AverageMeter / AverageMeterGroup accumulators and the search-space tree *)
(* StructuredMutableTreeNode with its lazy traverse generator.             *)
(***************************************************************************)
EXTENDS Integers, Sequences, FiniteSets, TLC

(* ------------------------------ bounds --------------------------------- *)
\* largest number of add_child calls on one tree
MaxNodes == 3
\* the same, for the runs that pass a memo set (SpecMemo)
MaxMemoNodes == 2
\* threads calling global_mutable_counting, and calls they make in all
NumThreads == 2
MaxCalls == 4
\* update calls on one AverageMeter, and the largest weight n
MaxUpdates == 3
MaxWeight == 2
\* update calls on one AverageMeterGroup
MaxGroupUpdates == 3
\* nesting depth of the values given to to_device
MaxDepth == 2

(* ======================================================================= *)
(*  StructuredMutableTreeNode                                              *)
(* ======================================================================= *)
VARIABLES
    mutable,     \* node -> its mutable (the entity's key), None for the root
    children,    \* node -> sequence of child nodes, in add_child order
    gen,         \* the generator object returned by the latest traverse call
    last,        \* the previous generator, once it ran to completion
    memoSet,     \* the set a caller keeps to pass as memo=
    debug        \* __debug__: FALSE when the interpreter strips assert (-O)

treeVars == <<mutable, children, gen, last, memoSet, debug>>

None == "None"
\* the mutables handed to add_child, told apart by their key; only the root
\* holds None (class docstring, line 103)
Keys == {"a", "b", "c"}
Root == 1
Orders == {"pre", "post", "in"}
ValidOrders == {"pre", "post"}
\* memo argument of a call: None, or the caller's set; "ref" is the set a
\* parent frame hands to the recursive call on a child
MemoArgs == {"None", "set"}

Nodes == DOMAIN mutable

NoGen == [status |-> "none", order |-> "pre", deduplicate |-> TRUE,
          memoArg |-> "None", memo |-> {}, stack |-> <<>>, out |-> <<>>,
          visits |-> <<>>]
NoRun == [status |-> "none", order |-> "pre", deduplicate |-> TRUE,
          memoArg |-> "None", out |-> <<>>]

\* StructuredMutableTreeNode(None): the root of a new search space
TreeInit ==
    /\ mutable = <<None>>
    /\ children = << <<>> >>
    /\ gen = NoGen
    /\ last = NoRun
    /\ memoSet = {}
    /\ debug \in BOOLEAN

Idle == gen.status \in {"none", "done", "failed"}

\* node.add_child(m): append a new node wrapping m, leave the rest alone.
\* The tree is only extended while no generator is being consumed; the
\* exhausted generator of a smaller tree is dropped.
add_child(node, m) ==
    /\ Idle
    /\ mutable' = Append(mutable, m)
    /\ children' = Append([children EXCEPT ![node] = Append(@, Len(mutable) + 1)], <<>>)
    /\ gen' = NoGen
    /\ last' = NoRun
    /\ UNCHANGED <<memoSet, debug>>

MemoAtStartFresh(arg, passed) == {}

\* line 140-141: if memo is None: memo = set()
MemoAtStart(arg, passed) == IF arg = "None" THEN {} ELSE passed

AssertOrderStripped(order) == TRUE

\* line 142: assert order in ["pre", "post"]  (a no-op without __debug__)
AssertOrder(order) == debug => order \in ValidOrders

ShouldYieldAlways(deduplicate, key, memo) == TRUE

ShouldYieldUnseen(deduplicate, key, memo) == key \notin memo

\* lines 145, 153: if not deduplicate or self.mutable.key not in memo
ShouldYield(deduplicate, key, memo) == ~deduplicate \/ key \notin memo

ChildAtReversed(n, i) == children[n][Len(children[n]) + 1 - i]

\* line 148: for child in self.children  (the i-th child, in list order)
ChildAt(n, i) == children[n][i]

Frame(node, pc, i, arg) == [node |-> node, pc |-> pc, i |-> i, memo |-> arg]

SetTop(stack, f) == [stack EXCEPT ![Len(stack)] = f]
Pop(stack) == SubSeq(stack, 1, Len(stack) - 1)

\* Resume the generator: run the frames from where they were suspended up to
\* the next yield, the end of the outermost frame, or a failed assertion.
RECURSIVE Run(_, _, _, _, _)
Run(stack, memo, order, deduplicate, visits) ==
    IF stack = <<>>
    THEN [status |-> "done", stack |-> <<>>, memo |-> memo, yield |-> <<>>, visits |-> visits]
    ELSE
    LET f == stack[Len(stack)]
        n == f.node
    IN
    CASE f.pc = "start" ->
           LET m0 == MemoAtStart(f.memo, memo)
               v1 == Append(visits, n)
           IN IF ~AssertOrder(order)
              THEN [status |-> "failed", stack |-> <<>>, memo |-> m0, yield |-> <<>>, visits |-> v1]
              ELSE IF order = "pre" /\ mutable[n] # None /\ ShouldYield(deduplicate, mutable[n], m0)
              THEN [status |-> "suspended",
                    stack |-> SetTop(stack, Frame(n, "loop", 1, "ref")),
                    memo |-> m0 \cup {mutable[n]},
                    yield |-> << [node |-> n, mutable |-> mutable[n]] >>,
                    visits |-> v1]
              ELSE Run(SetTop(stack, Frame(n, "loop", 1, "ref")), m0, order, deduplicate, v1)
      [] f.pc = "loop" ->
           IF f.i <= Len(children[n])
           THEN Run(Append(stack, Frame(ChildAt(n, f.i), "start", 0, "ref")),
                    memo, order, deduplicate, visits)
           ELSE Run(SetTop(stack, Frame(n, "post", f.i, "ref")), memo, order, deduplicate, visits)
      [] f.pc = "post" ->
           IF order = "post" /\ mutable[n] # None /\ ShouldYield(deduplicate, mutable[n], memo)
           THEN [status |-> "suspended",
                 stack |-> SetTop(stack, Frame(n, "end", f.i, "ref")),
                 memo |-> memo \cup {mutable[n]},
                 yield |-> << [node |-> n, mutable |-> mutable[n]] >>,
                 visits |-> visits]
           ELSE Run(SetTop(stack, Frame(n, "end", f.i, "ref")), memo, order, deduplicate, visits)
      [] f.pc = "end" ->
           LET rest == Pop(stack)
           IN IF rest = <<>>
              THEN Run(<<>>, memo, order, deduplicate, visits)
              ELSE LET p == rest[Len(rest)]
                   IN Run(SetTop(rest, Frame(p.node, p.pc, p.i + 1, p.memo)),
                          memo, order, deduplicate, visits)

Summary(g) == [status |-> g.status, order |-> g.order, deduplicate |-> g.deduplicate,
               memoArg |-> g.memoArg, out |-> g.out]

\* root.traverse(order, deduplicate, memo): calling a generator function
\* only builds the generator object; no line of the body runs yet.
traverse(order, deduplicate, memoArg) ==
    /\ Idle
    /\ gen' = [status |-> "created", order |-> order, deduplicate |-> deduplicate,
               memoArg |-> memoArg,
               memo |-> IF memoArg = "set" THEN memoSet ELSE {},
               stack |-> << Frame(Root, "start", 0, memoArg) >>,
               out |-> <<>>, visits |-> <<>>]
    /\ last' = IF gen.status = "done" THEN Summary(gen) ELSE last
    /\ UNCHANGED <<mutable, children, memoSet, debug>>

\* next(generator): resume the body up to the next yield
next ==
    /\ gen.status \in {"created", "suspended"}
    /\ LET r == Run(gen.stack, gen.memo, gen.order, gen.deduplicate, gen.visits)
       IN /\ gen' = [gen EXCEPT !.status = r.status, !.stack = r.stack, !.memo = r.memo,
                                !.out = gen.out \o r.yield, !.visits = r.visits]
          /\ memoSet' = IF gen.memoArg = "set" THEN r.memo ELSE memoSet
    /\ UNCHANGED <<mutable, children, last, debug>>

(* ----------------------- properties of traverse ------------------------ *)
NonRoot == Nodes \ {Root}
IsChild(p, c) == \E i \in 1..Len(children[p]) : children[p][i] = c

RECURSIVE DescendantIn(_, _, _)
DescendantIn(a, d, fuel) ==
    /\ fuel > 0
    /\ \/ IsChild(a, d)
       \/ \E c \in Nodes : IsChild(a, c) /\ DescendantIn(c, d, fuel - 1)
Descendant(a, d) == DescendantIn(a, d, Len(mutable))
InSubtree(a, d) == a = d \/ Descendant(a, d)

Complete(g) == g.status = "done" /\ g.order \in ValidOrders
OutKeys(out) == [i \in 1..Len(out) |-> out[i].mutable]
KeySet(out) == {out[i].mutable : i \in 1..Len(out)}
\* every yield of x comes before every yield of y, and both are yielded
AllBefore(out, x, y) ==
    /\ \E i \in 1..Len(out) : out[i].node = x
    /\ \E j \in 1..Len(out) : out[j].node = y
    /\ \A i, j \in 1..Len(out) : (out[i].node = x /\ out[j].node = y) => i < j

ExampleTree ==
    /\ mutable = <<None, "a", "b", "c">>
    /\ children = << <<2, 3>>, <<4>>, <<>>, <<>> >>

\* C1: without deduplication a pre-order run yields a node's entity before
\* those of all its descendants, a post-order run after them, and in both
\* orders the subtrees of siblings come out in add_child order
\* (root-(a-(c), b) gives a, c, b and c, a, b).
TraverseOrder ==
    (Complete(gen) /\ ~gen.deduplicate) =>
        /\ \A a, d \in NonRoot : Descendant(a, d) =>
              IF gen.order = "pre" THEN AllBefore(gen.out, a, d)
                                   ELSE AllBefore(gen.out, d, a)
        /\ \A p \in Nodes : \A i, j \in 1..Len(children[p]) : i < j =>
              \A x, y \in NonRoot :
                 (InSubtree(children[p][i], x) /\ InSubtree(children[p][j], y))
                     => AllBefore(gen.out, x, y)
        /\ ExampleTree =>
              OutKeys(gen.out) = IF gen.order = "pre" THEN <<"a", "c", "b">>
                                                      ELSE <<"c", "a", "b">>

TraverseOrderWitness ==
    /\ Complete(gen) /\ ~gen.deduplicate /\ gen.order = "post"
    /\ ExampleTree
    /\ OutKeys(gen.out) = <<"c", "a", "b">>

Count(seq, x) == Cardinality({i \in 1..Len(seq) : seq[i] = x})

\* C2: a complete run without deduplication yields the entity of every
\* non-root node exactly once, whatever keys repeat, yields nothing for the
\* root, and enters no node twice.
EachNodeOnce ==
    (Complete(gen) /\ ~gen.deduplicate) =>
        /\ \A n \in NonRoot :
              Cardinality({i \in 1..Len(gen.out) : gen.out[i].node = n}) = 1
        /\ \A i \in 1..Len(gen.out) :
              /\ gen.out[i].node # Root
              /\ gen.out[i].mutable = mutable[gen.out[i].node]
              /\ gen.out[i].mutable # None
        /\ Len(gen.out) = Cardinality(NonRoot)
        /\ \A n \in Nodes : Count(gen.visits, n) = 1

EachNodeOnceWitness ==
    /\ Complete(gen) /\ ~gen.deduplicate
    /\ Len(gen.out) = 3
    /\ Cardinality(KeySet(gen.out)) = 1

RECURSIVE FirstOccurrences(_)
FirstOccurrences(out) ==
    IF out = <<>> THEN <<>>
    ELSE LET init == SubSeq(out, 1, Len(out) - 1)
             e == out[Len(out)]
         IN IF e.mutable \in KeySet(init)
            THEN FirstOccurrences(init)
            ELSE Append(FirstOccurrences(init), e)

\* C3: a deduplicating run without memo yields what the run without
\* deduplication yields, cut down to the first occurrence of each key: no key
\* twice, every key of the tree once, also across different subtrees.
DedupFirstOccurrence ==
    (Complete(gen) /\ gen.deduplicate /\ gen.memoArg = "None") =>
        /\ \A i, j \in 1..Len(gen.out) :
              gen.out[i].mutable = gen.out[j].mutable => i = j
        /\ KeySet(gen.out) = {mutable[n] : n \in NonRoot}
        /\ (Complete(last) /\ ~last.deduplicate /\ last.order = gen.order) =>
              gen.out = FirstOccurrences(last.out)

\* the same key in two different subtrees, the second one suppressed
DedupFirstOccurrenceWitness ==
    /\ Complete(gen) /\ gen.deduplicate /\ gen.memoArg = "None"
    /\ Complete(last) /\ ~last.deduplicate /\ last.order = gen.order
    /\ Len(last.out) = 3 /\ Len(gen.out) = 2
    /\ Len(children[Root]) = 2
    /\ \E x, y \in NonRoot :
          /\ IsChild(children[Root][1], x) /\ y = children[Root][2]
          /\ mutable[x] = mutable[y]

BadOrder(g) == g.status # "none" /\ g.order \notin ValidOrders

\* C4 as claimed: with an order other than pre and post the call itself fails.
FailsAtTheCall ==
    (debug /\ BadOrder(gen)) => gen.status = "failed"

\* C4: with an order other than pre and post the call returns a generator;
\* with assertions enabled the first next() on it fails, before any entity
\* is yielded and before any child is entered, for every tree.
FailsAtFirstNext ==
    (debug /\ BadOrder(gen)) =>
        /\ gen.status \in {"created", "failed"}
        /\ gen.out = <<>>
        /\ gen.status = "created" => gen.visits = <<>>
        /\ gen.status = "failed" => gen.visits = <<Root>>

FailsAtFirstNextWitness ==
    /\ debug /\ BadOrder(gen) /\ gen.status = "failed"
    /\ Len(mutable) > 2

\* C9: on an unchanged tree two successive complete deduplicating runs in the
\* same order without memo yield the same sequence; when both calls are given
\* the same memo set, no key recorded by the earlier run is yielded by the
\* later deduplicating one.
Restartable ==
    (Complete(gen) /\ Complete(last) /\ gen.deduplicate) =>
        /\ (gen.memoArg = "None" /\ last.memoArg = "None" /\ last.deduplicate
              /\ last.order = gen.order) => gen.out = last.out
        /\ (gen.memoArg = "set" /\ last.memoArg = "set") =>
              KeySet(gen.out) \cap KeySet(last.out) = {}

RestartableWitness ==
    /\ Complete(gen) /\ Complete(last) /\ gen.deduplicate
    /\ gen.memoArg = "set" /\ last.memoArg = "set"
    /\ last.out # <<>> /\ gen.out = <<>>
    /\ Cardinality(NonRoot) = 2

RestartableFreshWitness ==
    /\ Complete(gen) /\ Complete(last) /\ gen.deduplicate /\ last.deduplicate
    /\ gen.memoArg = "None" /\ last.memoArg = "None" /\ last.order = gen.order
    /\ Len(gen.out) = 2 /\ gen.out = last.out


(* ======================================================================= *)
(*  global_mutable_counting                                                *)
(* ======================================================================= *)
VARIABLES
    counter,     \* the module global _counter
    pc,          \* thread -> where it is inside global_mutable_counting
    tmp,         \* thread -> the value of _counter it loaded for the +=
    rets,        \* the calls that returned, in order: [t, v]
    lock,        \* holder of the callers' common lock, 0 when free
    useLock      \* whether the callers wrap every call in that lock

counterVars == <<counter, pc, tmp, rets, lock, useLock>>

Threads == 1..NumThreads

CounterInit ==
    /\ counter = 0
    /\ pc = [t \in Threads |-> "idle"]
    /\ tmp = [t \in Threads |-> 0]
    /\ rets = <<>>
    /\ lock = 0
    /\ useLock \in BOOLEAN

InCall == {t \in Threads : pc[t] # "idle"}

\* thread t enters global_mutable_counting, inside the callers' lock if they
\* use one
Call(t) ==
    /\ pc[t] = "idle"
    /\ useLock => lock = 0
    /\ pc' = [pc EXCEPT ![t] = "load"]
    /\ lock' = IF useLock THEN t ELSE lock
    /\ UNCHANGED <<counter, tmp, rets, useLock>>

\* line 16, first half of _counter += 1: read the global
Load(t) ==
    /\ pc[t] = "load"
    /\ tmp' = [tmp EXCEPT ![t] = counter]
    /\ pc' = [pc EXCEPT ![t] = "store"]
    /\ UNCHANGED <<counter, rets, lock, useLock>>

IncrementSkipped(v) == v

\* line 16: the value _counter += 1 computes from the value it read
Increment(v) == v + 1

\* line 16, second half of _counter += 1: write the global
Store(t) ==
    /\ pc[t] = "store"
    /\ counter' = Increment(tmp[t])
    /\ pc' = [pc EXCEPT ![t] = "ret"]
    /\ UNCHANGED <<tmp, rets, lock, useLock>>

ReturnedOld(t) == tmp[t]

\* line 17: return _counter reads the global again
ReturnValue(t) == counter

Return(t) ==
    /\ pc[t] = "ret"
    /\ rets' = Append(rets, [t |-> t, v |-> ReturnValue(t)])
    /\ pc' = [pc EXCEPT ![t] = "idle"]
    /\ tmp' = [tmp EXCEPT ![t] = 0]
    /\ lock' = IF useLock THEN 0 ELSE lock
    /\ UNCHANGED <<counter, useLock>>

Callers == {rets[i].t : i \in 1..Len(rets)} \cup InCall

\* C5: the k-th sequential call by a single caller returns k.
SequentialIds ==
    Cardinality(Callers) <= 1 =>
        /\ \A i \in 1..Len(rets) : rets[i].v = i
        /\ counter = Len(rets) + (IF \E t \in Threads : pc[t] = "ret" THEN 1 ELSE 0)

SequentialIdsWitness ==
    /\ Cardinality(Callers) = 1
    /\ Len(rets) = 3 /\ rets[1].v = 1 /\ rets[2].v = 2 /\ rets[3].v = 3
    /\ InCall = {}

\* C6: when every call is made holding the common lock, the returned
\* identifiers are pairwise distinct and the counter equals the number of
\* calls that have completed their increment.
LockedIdsDistinct ==
    useLock =>
        /\ \A i, j \in 1..Len(rets) : rets[i].v = rets[j].v => i = j
        /\ InCall = {} => counter = Len(rets)
        /\ Cardinality(InCall) <= 1

LockedIdsDistinctWitness ==
    /\ useLock /\ InCall = {}
    /\ Len(rets) >= 3 /\ counter = Len(rets)
    /\ \E i, j \in 1..Len(rets) : rets[i].t # rets[j].t

\* C6, the unprotected half: states that interleaved calls can reach
RaceDuplicateId ==
    /\ ~useLock
    /\ \E i, j \in 1..Len(rets) : i # j /\ rets[i].v = rets[j].v
RaceLostUpdate ==
    /\ ~useLock /\ InCall = {}
    /\ counter < Len(rets)

(* ======================================================================= *)
(*  AverageMeter                                                           *)
(* ======================================================================= *)
VARIABLES
    meter,       \* one AverageMeter: name, fmt, val, avg, sum, count
    mraised,     \* the exception the latest call on it raised, "None" if none
    mlog         \* the update(val, n) calls since it was created or reset

meterVars == <<meter, mraised, mlog>>

Num(i) == [type |-> "int", v |-> i]
Str == [type |-> "str", v |-> 0]
MeterValues == {Num(-1), Num(5), Num(7), Num(9), Str}
Weights == 0..MaxWeight
DefaultN == 1

Abs(x) == IF x < 0 THEN -x ELSE x
RECURSIVE GCD(_, _)
GCD(a, b) == IF b = 0 THEN a ELSE GCD(b, a % b)
\* the quotient a / b of true division, as a fraction in lowest terms
\* (the rounding of the float result is not modelled)
Div(a, b) ==
    LET g == GCD(Abs(a), Abs(b))
        s == IF b < 0 THEN -1 ELSE 1
    IN [num |-> s * (a \div g), den |-> s * (b \div g)]
Zero == [num |-> 0, den |-> 1]

\* lines 77-81
reset(m) == [m EXCEPT !.val = Num(0), !.avg = Zero, !.sum = 0, !.count = 0]

\* lines 62-75
AverageMeter(name, fmt) ==
    reset([name |-> name, fmt |-> fmt, val |-> Num(0), avg |-> Zero, sum |-> 0, count |-> 0])

NewCountByOne(count, n) == count + 1

\* line 88: self.count += n
NewCount(count, n) == count + n

\* lines 83-89.  A value that is no number only logs a warning (84-85); the
\* representative str then makes line 87 raise TypeError (int + str), after
\* val was assigned.  A total count of 0 makes line 89 raise
\* ZeroDivisionError after val, sum and count were assigned.
update(m, val, n) ==
    LET m1 == [m EXCEPT !.val = val]
    IN IF val.type = "str"
       THEN [meter |-> m1, raised |-> "TypeError"]
       ELSE LET m2 == [m1 EXCEPT !.sum = m.sum + val.v * n, !.count = NewCount(m.count, n)]
            IN IF m2.count = 0
               THEN [meter |-> m2, raised |-> "ZeroDivisionError"]
               ELSE [meter |-> [m2 EXCEPT !.avg = Div(m2.sum, m2.count)], raised |-> "None"]

MeterInit ==
    /\ meter = AverageMeter("loss", ":f")
    /\ mraised = "None"
    /\ mlog = <<>>

MeterUpdate(val, n) ==
    /\ LET r == update(meter, val, n)
       IN meter' = r.meter /\ mraised' = r.raised
    /\ mlog' = Append(mlog, [val |-> val, n |-> n])

MeterReset ==
    /\ meter' = reset(meter)
    /\ mraised' = "None"
    /\ mlog' = <<>>

RECURSIVE SumN(_)
SumN(log) == IF log = <<>> THEN 0 ELSE SumN(Tail(log)) + Head(log).n
RECURSIVE SumValN(_)
SumValN(log) == IF log = <<>> THEN 0 ELSE SumValN(Tail(log)) + Head(log).val.v * Head(log).n

NumericPositive(log) ==
    /\ log # <<>>
    /\ \A i \in 1..Len(log) : log[i].val.type = "int" /\ log[i].n > 0

\* C7: after updates with numbers and positive weights on a fresh or reset
\* meter, val is the last value, count the sum of the weights, sum the
\* weighted sum and avg = sum / count (5, 7, 9 give 9, 21, 3, 7).
MeterTotals ==
    NumericPositive(mlog) =>
        /\ mraised = "None"
        /\ meter.val = mlog[Len(mlog)].val
        /\ meter.count = SumN(mlog)
        /\ meter.sum = SumValN(mlog)
        /\ meter.avg.den > 0
        /\ meter.avg.num * meter.count = meter.sum * meter.avg.den
        /\ mlog = << [val |-> Num(5), n |-> 1], [val |-> Num(7), n |-> 1], [val |-> Num(9), n |-> 1] >>
              => /\ meter.val = Num(9) /\ meter.sum = 21 /\ meter.count = 3
                 /\ meter.avg = [num |-> 7, den |-> 1]

MeterTotalsWitness ==
    /\ mlog = << [val |-> Num(5), n |-> 1], [val |-> Num(7), n |-> 1], [val |-> Num(9), n |-> 1] >>
    /\ meter.avg = [num |-> 7, den |-> 1]

MeterWeightedWitness ==
    /\ NumericPositive(mlog)
    /\ \E i \in 1..Len(mlog) : mlog[i].n > 1
    /\ meter.avg.den > 1

(* ======================================================================= *)
(*  AverageMeterGroup                                                      *)
(* ======================================================================= *)
VARIABLES
    meters,      \* the OrderedDict self.meters: sequence of [k, v]
    graised,     \* the exception the latest update raised, "None" if none
    glog         \* the data mappings passed to update so far

groupVars == <<meters, graised, glog>>

Names == {"loss", "acc"}
GroupValues == {Num(1), Num(3), Str}
Item(k, v) == [k |-> k, v |-> v]
\* the mappings data: items in iteration order, no name twice
GroupData ==
    {<<>>}
    \cup { <<Item(k, v)>> : k \in Names, v \in GroupValues }
    \cup UNION { { <<Item(k1, v1), Item(k2, v2)>> :
                       k2 \in Names \ {k1}, v1 \in GroupValues, v2 \in GroupValues } :
                   k1 \in Names }

\* lines 37-38
GroupInit ==
    /\ meters = <<>>
    /\ graised = "None"
    /\ glog = <<>>

ContainsNever(ms, k) == FALSE

\* line 42: k in self.meters
Contains(ms, k) == \E i \in 1..Len(ms) : ms[i].k = k

IndexOf(ms, k) == CHOOSE i \in 1..Len(ms) : ms[i].k = k

\* lines 41-44, from the i-th item of data on
RECURSIVE GroupUpdateFrom(_, _, _)
GroupUpdateFrom(ms, data, i) ==
    IF i > Len(data)
    THEN [meters |-> ms, raised |-> "None"]
    ELSE LET k == data[i].k
             ms1 == IF ~Contains(ms, k) THEN Append(ms, Item(k, AverageMeter(k, ":4f"))) ELSE ms
             at == IndexOf(ms1, k)
             r == update(ms1[at].v, data[i].v, DefaultN)
             ms2 == [ms1 EXCEPT ![at] = Item(k, r.meter)]
         IN IF r.raised # "None"
            THEN [meters |-> ms2, raised |-> r.raised]
            ELSE GroupUpdateFrom(ms2, data, i + 1)

\* lines 40-44
GroupUpdate(data) ==
    /\ LET r == GroupUpdateFrom(meters, data, 1)
       IN meters' = r.meters /\ graised' = r.raised
    /\ glog' = Append(glog, data)

RECURSIVE Flatten(_)
Flatten(log) == IF log = <<>> THEN <<>> ELSE Head(log) \o Flatten(Tail(log))
Appeared == Flatten(glog)
RECURSIVE FirstNames(_)
FirstNames(items) ==
    IF items = <<>> THEN <<>>
    ELSE LET init == SubSeq(items, 1, Len(items) - 1)
             k == items[Len(items)].k
         IN IF \E i \in 1..Len(init) : init[i].k = k
            THEN FirstNames(init)
            ELSE Append(FirstNames(init), k)
Appearances(k) == Cardinality({i \in 1..Len(Appeared) : Appeared[i].k = k})
MeterNames == [i \in 1..Len(meters) |-> meters[i].k]

OnePerNameCounted ==
    /\ MeterNames = FirstNames(Appeared)
    /\ \A i \in 1..Len(meters) :
          /\ meters[i].v.name = meters[i].k
          /\ meters[i].v.count = Appearances(meters[i].k)

\* C10 as claimed: after any sequence of group updates there is one
\* accumulator per name that appeared, in first-appearance order, counting
\* the appearances of its name.
GroupCountsAnyData == OnePerNameCounted

\* C10: the same, after any sequence of group updates whose values are all
\* numbers.
GroupCountsNumbers ==
    (\A i \in 1..Len(Appeared) : Appeared[i].v.type = "int") =>
        graised = "None" /\ OnePerNameCounted

GroupCountsNumbersWitness ==
    /\ \A i \in 1..Len(Appeared) : Appeared[i].v.type = "int"
    /\ MeterNames = <<"acc", "loss">>
    /\ meters[1].v.count = 1 /\ meters[2].v.count = 3

(* ======================================================================= *)
(*  to_device                                                              *)
(* ======================================================================= *)
VARIABLES
    obj,         \* the argument obj
    device,      \* the argument device
    result       \* what the call returned or raised, NoResult before it

deviceVars == <<obj, device, result>>

Devices == {"cpu", "cuda"}
Value(kind, elems, keys, dev, id) ==
    [kind |-> kind, elems |-> elems, keys |-> keys, dev |-> dev, id |-> id]
Tensor(id) == Value("tensor", <<>>, <<>>, "cpu", id)
Scalar(kind) == Value(kind, <<>>, <<>>, "", 3)
NoResult == Value("NoResult", <<>>, <<>>, "", 0)
ValueError(o) == Value("ValueError", <<o>>, <<>>, "", 0)

Leaves == {Tensor(1), Tensor(2), Scalar("int"), Scalar("float"), Scalar("str"),
           Scalar("set"), Scalar("object")}
\* the leaves used as the second element of a container
SideLeaves == {Tensor(2), Scalar("int"), Scalar("set")}
ContainerKinds == {"tuple", "list", "dict", "OrderedDict"}
KeysOf(kind, n) ==
    IF kind \in {"dict", "OrderedDict"} THEN SubSeq(<<"x", "y">>, 1, n) ELSE <<>>
Container(kind, elems) == Value(kind, elems, KeysOf(kind, Len(elems)), "", 0)

\* the containers of at most two elements around the values of vs, the
\* other element a leaf
Wraps(vs) ==
    { Container(k, <<>>) : k \in ContainerKinds }
    \cup { Container(k, <<x>>) : k \in ContainerKinds, x \in vs }
    \cup { Container(k, <<x, l>>) : k \in ContainerKinds, x \in vs, l \in SideLeaves }
    \cup { Container(k, <<l, x>>) : k \in ContainerKinds, x \in vs, l \in SideLeaves }
RECURSIVE Inputs(_)
Inputs(depth) == IF depth = 0 THEN Leaves
                 ELSE LET vs == Inputs(depth - 1) IN vs \cup Wraps(vs)

IsError(r) == r.kind = "ValueError"

\* line 22: obj.to(device)
to(t, dev) == [t EXCEPT !.dev = dev]

IsInstanceExact(o, kind) == o.kind = kind

\* isinstance(obj, tuple / list / dict): an OrderedDict is a dict
IsInstance(o, kind) ==
    \/ o.kind = kind
    \/ kind = "dict" /\ o.kind = "OrderedDict"

\* lines 20-31.  The comprehensions of lines 24, 26 and 28 convert the
\* elements from left to right; the first one that raises ends the call.
RECURSIVE to_device(_, _)
RECURSIVE ConvertAll(_, _, _)
ConvertAll(elems, dev, done) ==
    IF Len(done) = Len(elems) THEN done
    ELSE LET r == to_device(elems[Len(done) + 1], dev)
         IN IF IsError(r) THEN <<r>> ELSE ConvertAll(elems, dev, Append(done, r))
Rebuilt(kind, o, dev) ==
    LET rs == ConvertAll(o.elems, dev, <<>>)
    IN IF Len(rs) = 1 /\ Len(o.elems) >= 1 /\ IsError(rs[1]) THEN rs[1]
       ELSE Value(kind, rs, o.keys, "", 0)
to_device(o, dev) ==
    IF o.kind = "tensor" THEN to(o, dev)
    ELSE IF IsInstance(o, "tuple") THEN Rebuilt("tuple", o, dev)
    ELSE IF IsInstance(o, "list") THEN Rebuilt("list", o, dev)
    ELSE IF IsInstance(o, "dict") THEN Rebuilt("dict", o, dev)
    ELSE IF o.kind \in {"int", "float", "str"} THEN o
    ELSE ValueError(o)

DeviceInit ==
    /\ obj \in Inputs(MaxDepth)
    /\ device \in Devices
    /\ result = NoResult

ToDevice ==
    /\ result = NoResult
    /\ result' = to_device(obj, device)
    /\ UNCHANGED <<obj, device>>

RECURSIVE Occurs(_, _)
\* the values of the kinds in kinds that occur in o at any depth
Occurs(o, kinds) ==
    (IF o.kind \in kinds THEN {o} ELSE {})
    \cup UNION { Occurs(o.elems[i], kinds) : i \in 1..Len(o.elems) }

RECURSIVE Moved(_, _, _, _)
\* r is o with every tensor moved to dev; mappings names the kinds that may
\* come back as a plain dict
Moved(o, r, dev, mappings) ==
    CASE o.kind = "tensor" -> r.kind = "tensor" /\ r.id = o.id /\ r.dev = dev /\ r.elems = <<>>
      [] o.kind \in {"int", "float", "str"} -> r = o
      [] o.kind \in ContainerKinds ->
            /\ \/ r.kind = o.kind
               \/ o.kind \in mappings /\ r.kind = "dict"
            /\ r.keys = o.keys
            /\ Len(r.elems) = Len(o.elems)
            /\ \A i \in 1..Len(o.elems) : Moved(o.elems[i], r.elems[i], dev, mappings)
      [] OTHER -> FALSE

Returned == result # NoResult

\* C8 as claimed: unordered containers (a set) are rebuilt like tuples,
\* lists and mappings; only the other types make the call fail.
SetsRebuilt ==
    Returned =>
        IF Occurs(obj, {"object"}) = {}
        THEN /\ ~IsError(result)
             /\ result.kind \in {obj.kind, "dict"}
             /\ Occurs(obj, {"set"}) = {} =>
                   Moved(obj, result, device, {"dict", "OrderedDict"})
        ELSE IsError(result)

\* C8: tuples, lists and dicts nested in any way come back with the same
\* shape and keys (a dict subclass as a plain dict), every tensor moved to
\* the device and every int, float and str unchanged; any other value at any
\* depth, a set included, makes the whole call fail with the ValueError that
\* names such a value, and nothing is returned.
SameShapeOrError ==
    Returned =>
        IF Occurs(obj, {"set", "object"}) = {}
        THEN Moved(obj, result, device, {"dict", "OrderedDict"})
        ELSE /\ IsError(result)
             /\ result.elems[1] \in Occurs(obj, {"set", "object"})

\* {"x": [t1, t2], "y": 3}
ExampleObj == Container("dict", << Container("list", <<Tensor(1), Tensor(2)>>), Scalar("int") >>)
SameShapeOrErrorWitness ==
    /\ obj = ExampleObj /\ device = "cuda"
    /\ result = Container("dict", << Container("list", <<to(Tensor(1), "cuda"), to(Tensor(2), "cuda")>>),
                                     Scalar("int") >>)

(* ======================================================================= *)
(*  specifications                                                         *)
(* ======================================================================= *)
vars == <<treeVars, counterVars, meterVars, groupVars, deviceVars>>

TreeIdle ==
    /\ mutable = <<None>> /\ children = << <<>> >> /\ gen = NoGen /\ last = NoRun
    /\ memoSet = {} /\ debug = TRUE
CounterIdle ==
    /\ counter = 0 /\ pc = [t \in Threads |-> "idle"] /\ tmp = [t \in Threads |-> 0]
    /\ rets = <<>> /\ lock = 0 /\ useLock = FALSE
DeviceIdle == obj = Scalar("int") /\ device = "cpu" /\ result = NoResult

TreeOnly == UNCHANGED <<counterVars, meterVars, groupVars, deviceVars>>
CounterOnly == UNCHANGED <<treeVars, meterVars, groupVars, deviceVars>>
MeterOnly == UNCHANGED <<treeVars, counterVars, groupVars, deviceVars>>
GroupOnly == UNCHANGED <<treeVars, counterVars, meterVars, deviceVars>>
DeviceOnly == UNCHANGED <<treeVars, counterVars, meterVars, groupVars>>

\* the search-space tree, traversed without a memo argument
Init == TreeInit /\ CounterIdle /\ MeterInit /\ GroupInit /\ DeviceIdle
Next ==
    \/ \E node \in Nodes, m \in Keys :
          Len(mutable) <= MaxNodes /\ add_child(node, m) /\ TreeOnly
    \/ \E order \in Orders, d \in BOOLEAN : traverse(order, d, "None") /\ TreeOnly
    \/ next /\ TreeOnly
Spec == Init /\ [][Next]_vars

\* the search-space tree, traversed with and without the caller's memo set
NextMemo ==
    \/ \E node \in Nodes, m \in Keys :
          Len(mutable) <= MaxMemoNodes /\ add_child(node, m) /\ TreeOnly
    \/ \E order \in Orders, d \in BOOLEAN, a \in MemoArgs : traverse(order, d, a) /\ TreeOnly
    \/ next /\ TreeOnly
SpecMemo == Init /\ [][NextMemo]_vars

\* threads calling global_mutable_counting
InitCounter == TreeIdle /\ CounterInit /\ MeterInit /\ GroupInit /\ DeviceIdle
NextCounter ==
    \/ \E t \in Threads :
          Len(rets) + Cardinality(InCall) < MaxCalls /\ Call(t) /\ CounterOnly
    \/ \E t \in Threads : Load(t) /\ CounterOnly
    \/ \E t \in Threads : Store(t) /\ CounterOnly
    \/ \E t \in Threads : Return(t) /\ CounterOnly
SpecCounter == InitCounter /\ [][NextCounter]_vars

\* one AverageMeter
InitMeter == TreeIdle /\ CounterIdle /\ MeterInit /\ GroupInit /\ DeviceIdle
NextMeter ==
    \/ \E val \in MeterValues, n \in Weights \cup {DefaultN} :
          Len(mlog) < MaxUpdates /\ MeterUpdate(val, n) /\ MeterOnly
    \/ mlog # <<>> /\ MeterReset /\ MeterOnly
SpecMeter == InitMeter /\ [][NextMeter]_vars

\* one AverageMeterGroup
InitGroup == TreeIdle /\ CounterIdle /\ MeterInit /\ GroupInit /\ DeviceIdle
NextGroup ==
    \E data \in GroupData :
        Len(glog) < MaxGroupUpdates /\ GroupUpdate(data) /\ GroupOnly
SpecGroup == InitGroup /\ [][NextGroup]_vars

\* to_device on nested values
InitDevice == TreeIdle /\ CounterIdle /\ MeterInit /\ GroupInit /\ DeviceInit
NextDevice == ToDevice /\ DeviceOnly
SpecDevice == InitDevice /\ [][NextDevice]_vars
====
